---- MODULE Spec2Model ----
(***************************************************************************)
(* Model of analyze_health.py: the Garmin export summarisation pipeline.   *)
(*                                                                         *)
(* Representation:                                                         *)
(*  - a DataFrame is a record [present, cols, rows]; present = FALSE is    *)
(*    Python's None (data.get(key) of a missing key), cols is the set of   *)
(*    column names, rows the sequence of row records in file order;        *)
(*  - a pandas NaN / Python None cell is the number NaN (-1); every real   *)
(*    metric of the export is non-negative;                                *)
(*  - a timestamp is a number of ticks, TicksPerDay ticks to a calendar    *)
(*    day, tick 0 being midnight of day 0;                                 *)
(*  - a formatted string is a record of its variable parts;                *)
(*  - a Python call returns [raised, value]; raised = TRUE is an exception *)
(*    leaving the function.                                                *)
(***************************************************************************)
EXTENDS Integers, Sequences, FiniteSets, TLC

VARIABLES data, today, arg, pc, result,
          env, report_content, output_path, exit_code, files, console, calls

vars == <<data, today, arg, pc, result,
          env, report_content, output_path, exit_code, files, console, calls>>

mainVars == <<env, report_content, output_path, exit_code, files, console, calls>>

(***************************************************************************)
(* Bounds of the model.                                                    *)
(***************************************************************************)
TicksPerDay == 2
MaxSeconds == 7500
MaxId == 2
MaxDetail == 3
MaxActs == 2
MaxAttempts == 3
MaxRows == 9
MaxPermRows == 5
MaxSwaps == 1
RefDay == 8

(***************************************************************************)
(* Values, tables and calls.                                               *)
(***************************************************************************)
NaN == 0 - 1

IsNa(v) == v = NaN

NoneTable == [present |-> FALSE, cols |-> {}, rows |-> <<>>]

Table(cols, rows) == [present |-> TRUE, cols |-> cols, rows |-> rows]

\* DataFrame.empty: no rows or no columns
Empty(t) == Len(t.rows) = 0 \/ t.cols = {}

\* "df is not None and not df.empty"
HasData(t) == t.present /\ ~Empty(t)

Return(v) == [raised |-> FALSE, value |-> v]

KeyError == [raised |-> TRUE, value |-> "KeyError"]

DatasetNames == {"ActivitySummary", "ClimbingRoutes", "BoulderProblems",
                 "SleepSummary", "DailyStats", "TrainingReadiness", "VO2_Max"}

EmptyStore == [n \in DatasetNames |-> NoneTable]

\* sequences over S of length at most n
SeqUpTo(S, n) == UNION {[1..k -> S] : k \in 0..n}

\* Series.sum(): NaN cells are skipped
RECURSIVE SumSkipNa(_)
SumSkipNa(s) ==
    IF s = <<>> THEN 0
    ELSE (IF IsNa(Head(s)) THEN 0 ELSE Head(s)) + SumSkipNa(Tail(s))

Column(rows, c) == [i \in DOMAIN rows |-> rows[i][c]]

\* the sum of f over the set S
RECURSIVE SumOver(_, _)
SumOver(S, f) ==
    IF S = {} THEN 0
    ELSE LET x == CHOOSE y \in S : TRUE
         IN  f[x] + SumOver(S \ {x}, f)

(***************************************************************************)
(* calculate_climbing_duration                                             *)
(***************************************************************************)
\* one detail table's share: df[df['ActivityID'] == id]['Duration'].sum()
DetailDuration(activity_id, t) ==
    IF ~HasData(t) THEN Return(0)
    ELSE IF "ActivityID" \notin t.cols THEN KeyError
    ELSE IF "Duration" \notin t.cols THEN KeyError
    ELSE Return(SumSkipNa(Column(
             SelectSeq(t.rows, LAMBDA r : r.ActivityID = activity_id),
             "Duration")))

\* a faulty variant that forgets the boulder problems
calculate_climbing_duration_routes_only(activity_id, climbing_routes, boulder_problems) ==
    DetailDuration(activity_id, climbing_routes)

calculate_climbing_duration(activity_id, climbing_routes, boulder_problems) ==
    LET r == DetailDuration(activity_id, climbing_routes)
        b == DetailDuration(activity_id, boulder_problems)
    IN  IF r.raised THEN KeyError
        ELSE IF b.raised THEN KeyError
        ELSE Return(r.value + b.value)

(***************************************************************************)
(* format_duration                                                         *)
(***************************************************************************)
\* Whole seconds s with s/3600 halfway between two tenths, for which
\* f"{hours:.1f}" gives the upper tenth: the double nearest to s/60/60 lies
\* above the half, or is the half exactly and the upper tenth is even.
TiesRoundedUp == {5580, 6300, 6660, 8460, 8820, 9900, 10260, 10620,
                  12060, 12420, 13500, 13860, 14220}

\* f"{hours:.1f}" as a number of tenths of an hour
HoursTenths(seconds) ==
    IF seconds % 360 = 180
    THEN (IF seconds \in TiesRoundedUp THEN (seconds \div 360) + 1
                                       ELSE seconds \div 360)
    ELSE (seconds + 180) \div 360

MinStr(n) == [unit |-> "min", n |-> n]

HoursStr(tenths) == [unit |-> "hours", n |-> tenths]

\* a faulty variant with "minutes > 90"
format_duration_gt(seconds) ==
    IF IsNa(seconds) \/ seconds = 0 THEN MinStr(0)
    ELSE IF seconds > 90 * 60 THEN HoursStr(HoursTenths(seconds))
    ELSE MinStr(seconds \div 60)

format_duration(seconds) ==
    IF IsNa(seconds) \/ seconds = 0 THEN MinStr(0)
    ELSE IF seconds >= 90 * 60 THEN HoursStr(HoursTenths(seconds))
    ELSE MinStr(seconds \div 60)

(***************************************************************************)
(* Timestamps                                                              *)
(***************************************************************************)
WindowDays == 7

\* Timestamp.normalize(): midnight of the same day
normalize(t) == (t \div TicksPerDay) * TicksPerDay

\* Timestamp.date()
DateOf(t) == t \div TicksPerDay

\* pd.Timedelta(days=n)
Days(n) == n * TicksPerDay

\* DataFrame.sort_values('time'): ascending, rows of equal time keep file order
RECURSIVE InsertByTime(_, _)
InsertByTime(r, s) ==
    IF s = <<>> THEN <<r>>
    ELSE IF r.time < Head(s).time THEN <<r>> \o s
    ELSE <<Head(s)>> \o InsertByTime(r, Tail(s))

RECURSIVE SortByTime(_)
SortByTime(s) ==
    IF s = <<>> THEN <<>>
    ELSE InsertByTime(s[Len(s)], SortByTime(SubSeq(s, 1, Len(s) - 1)))

(***************************************************************************)
(* analyze_weekly_activities                                               *)
(***************************************************************************)
ClimbingTypes == {"indoor_climbing", "bouldering"}

CardioTypes == {"running", "cycling", "indoor_cycling"}

\* act['type'].replace('_', ' ').title(), "Indoor Climbing" shortened
Humanize(t) ==
    CASE t = "indoor_climbing" -> "Climbing"
      [] t = "bouldering" -> "Bouldering"
      [] t = "running" -> "Running"
      [] t = "cycling" -> "Cycling"
      [] t = "indoor_cycling" -> "Indoor Cycling"
      [] t = "strength_training" -> "Strength Training"
      [] t = "No Activity" -> "No Activity"

\* a faulty variant that keeps the 'No Activity' rows
FilterAndSort_keep_all(rows) == SortByTime(rows)

\* activities[activities['activityType'] != 'No Activity'].sort_values('time')
FilterAndSort(rows) ==
    SortByTime(SelectSeq(rows, LAMBDA r : r.activityType # "No Activity"))

\* row.get('movingDuration', row.get('elapsedDuration', 0)): the default is
\* used only when the column is absent from the row
RowGetDuration(cols, row) ==
    IF "movingDuration" \in cols THEN row.movingDuration
    ELSE IF "elapsedDuration" \in cols THEN row.elapsedDuration
    ELSE 0

\* row.get(c): None when the column is absent
RowGet(cols, row, c) == IF c \in cols THEN row[c] ELSE NaN

\* the duration of one row of the loop, as a call result
DurationOf(cols, row, climbing_routes, boulder_problems) ==
    IF row.activityType \in ClimbingTypes
    THEN (IF "ActivityID" \notin cols THEN KeyError
          ELSE calculate_climbing_duration(row.ActivityID, climbing_routes,
                                           boulder_problems))
    ELSE Return(RowGetDuration(cols, row))

\* the HR annotation of one activity: <<avg, max>> or <<>> for none.
\* A missing column gives None (falsy), 0 is falsy, NaN is truthy but
\* becomes None in the second test.
HrInfo(act) ==
    IF /\ act.type \in CardioTypes
       /\ "averageHR" \in act.cols /\ "maxHR" \in act.cols
       /\ act.averageHR # 0 /\ act.maxHR # 0
       /\ ~IsNa(act.averageHR) /\ ~IsNa(act.maxHR)
    THEN <<act.averageHR, act.maxHR>>
    ELSE <<>>

\* f"{act_type} ({duration_str}{hr_info})"; idx is the index label of the
\* row the text was made from
ActivityStr(act) ==
    [type |-> Humanize(act.type),
     duration |-> format_duration(act.duration),
     hr |-> HrInfo(act),
     idx |-> act.idx]

\* a faulty variant with the loop "for i in range(6, -1, -1)"
WeeklyLines_from_today(infos, tdy) ==
    [k \in 1..WindowDays |->
        LET check_date == DateOf(tdy - Days(WindowDays - k))
            activities_list == SelectSeq(infos, LAMBDA a : a.date = check_date)
        IN  [date |-> check_date,
             rest |-> activities_list = <<>>,
             acts |-> [j \in DOMAIN activities_list |->
                          ActivityStr(activities_list[j])]]]

\* the summary lines of the loop "for i in range(7, 0, -1)"; infos is the
\* sequence of activity_info in iteration order, daily_activities[date] the
\* subsequence of that date
WeeklyLines(infos, tdy) ==
    [k \in 1..WindowDays |->
        LET check_date == DateOf(tdy - Days(WindowDays + 1 - k))
            activities_list == SelectSeq(infos, LAMBDA a : a.date = check_date)
        IN  [date |-> check_date,
             rest |-> activities_list = <<>>,
             acts |-> [j \in DOMAIN activities_list |->
                          ActivityStr(activities_list[j])]]]

NoActivityData == [kind |-> "No activity data found.", lines |-> <<>>]

analyze_weekly_activities(d, tdy) ==
    LET activities == d["ActivitySummary"]
        climbing_routes == d["ClimbingRoutes"]
        boulder_problems == d["BoulderProblems"]
    IN  IF ~HasData(activities) THEN Return(NoActivityData)
        ELSE IF "activityType" \notin activities.cols THEN KeyError
        ELSE IF "time" \notin activities.cols THEN KeyError
        ELSE
          LET sorted == FilterAndSort(activities.rows)
              week_start == normalize(tdy - Days(WindowDays))
              recent_activities == SelectSeq(sorted, LAMBDA r : r.time >= week_start)
              durations == [i \in DOMAIN recent_activities |->
                              DurationOf(activities.cols, recent_activities[i],
                                         climbing_routes, boulder_problems)]
              infos == [i \in DOMAIN recent_activities |->
                          [type |-> recent_activities[i].activityType,
                           date |-> DateOf(recent_activities[i].time),
                           duration |-> durations[i].value,
                           cols |-> activities.cols,
                           averageHR |-> RowGet(activities.cols, recent_activities[i], "averageHR"),
                           maxHR |-> RowGet(activities.cols, recent_activities[i], "maxHR"),
                           idx |-> recent_activities[i].idx]]
          IN  IF \E i \in DOMAIN durations : durations[i].raised THEN KeyError
              ELSE Return([kind |-> "Previous Week's Activities",
                           lines |-> WeeklyLines(infos, tdy)])

(***************************************************************************)
(* analyze_climbing_bouldering                                             *)
(***************************************************************************)
\* round(num / den) to an integer, halves to the even neighbour: what
\* f"{x:.0f}" gives when x is exact in binary, as every half is for the
\* denominators a table of fewer than 8 rows produces
RoundHalfEven(num, den) ==
    LET q == num \div den
        r == num % den
    IN  IF 2 * r < den THEN q
        ELSE IF 2 * r > den THEN q + 1
        ELSE IF q % 2 = 0 THEN q ELSE q + 1

RouteCompleted == {"completed", "Completed", "COMPLETED", "sent", "Sent"}

ProblemCompleted == {"completed", "Completed", "COMPLETED", "sent", "Sent",
                     "topped", "Topped"}

\* set(recent_activities['ActivityID'].tolist()) of the climbing activities
\* with time >= week_start
recent_climbing_ids(activities, tdy) ==
    LET week_start == normalize(tdy - Days(WindowDays))
    IN  IF ~HasData(activities) THEN Return({})
        ELSE IF {"time", "activityType", "ActivityID"} \ activities.cols # {}
             THEN KeyError
        ELSE Return({activities.rows[i].ActivityID :
                        i \in {j \in DOMAIN activities.rows :
                                 /\ activities.rows[j].time >= week_start
                                 /\ activities.rows[j].activityType \in ClimbingTypes}})

\* Series.value_counts(): <<grade, count>> pairs, most frequent first, equal
\* counts in order of first appearance; NaN grades are not counted
RECURSIVE GradeOrder(_)
GradeOrder(gs) ==
    IF gs = <<>> THEN <<>>
    ELSE LET rest == GradeOrder(SubSeq(gs, 1, Len(gs) - 1))
             g == gs[Len(gs)]
         IN  IF g = "" \/ \E i \in DOMAIN rest : rest[i] = g THEN rest
             ELSE Append(rest, g)

CountOf(gs, g) == Cardinality({i \in DOMAIN gs : gs[i] = g})

RECURSIVE InsertByCount(_, _)
InsertByCount(p, s) ==
    IF s = <<>> THEN <<p>>
    ELSE IF p[2] > Head(s)[2] THEN <<p>> \o s
    ELSE <<Head(s)>> \o InsertByCount(p, Tail(s))

RECURSIVE SortByCount(_)
SortByCount(s) ==
    IF s = <<>> THEN <<>>
    ELSE InsertByCount(s[Len(s)], SortByCount(SubSeq(s, 1, Len(s) - 1)))

value_counts(gs) ==
    LET order == GradeOrder(gs)
    IN  SortByCount([i \in DOMAIN order |-> <<order[i], CountOf(gs, order[i])>>])

\* Series.mean() kept exact as [sum, n] over the non-NaN cells; n = 0 is NaN
Mean(vals) ==
    [sum |-> SumSkipNa(vals),
     n |-> Cardinality({i \in DOMAIN vals : ~IsNa(vals[i])})]

\* the summary lines of one detail table: header is the section title,
\* gradeCol the grade column, vocabulary the resultType values counted as
\* completed
DetailSection(t, ids, header, gradeCol, vocabulary) ==
    LET recent == SelectSeq(t.rows, LAMBDA r : r.ActivityID \in ids)
        total == Len(recent)
        completed == Cardinality({i \in DOMAIN recent :
                         recent[i].resultType \in vocabulary})
    IN  IF recent = <<>> THEN <<>>
        ELSE <<[line |-> "header", text |-> header],
               [line |-> "total", n |-> total]>>
             \o (IF gradeCol \in t.cols
                 THEN <<[line |-> "grades",
                         counts |-> value_counts(Column(recent, gradeCol))]>>
                 ELSE <<>>)
             \o (IF "resultType" \in t.cols
                 THEN <<[line |-> "rate",
                         pct |-> IF total > 0
                                 THEN RoundHalfEven(completed * 100, total)
                                 ELSE 0,
                         completed |-> completed,
                         total |-> total]>>
                 ELSE <<>>)
             \o (IF "attemptCount" \in t.cols
                 THEN <<[line |-> "attempts",
                         mean |-> Mean(Column(recent, "attemptCount"))]>>
                 ELSE <<>>)
             \o <<[line |-> "time",
                   text |-> format_duration(
                       IF "Duration" \in t.cols
                       THEN SumSkipNa(Column(recent, "Duration"))
                       ELSE 0)]>>

\* the result is the sequence summary_parts; <<>> is the empty string
analyze_climbing_bouldering(d, tdy) ==
    LET climbing_routes == d["ClimbingRoutes"]
        boulder_problems == d["BoulderProblems"]
        ids == recent_climbing_ids(d["ActivitySummary"], tdy)
    IN  IF ids.raised THEN KeyError
        ELSE IF HasData(climbing_routes) /\ "ActivityID" \notin climbing_routes.cols
             THEN KeyError
        ELSE IF HasData(boulder_problems) /\ "ActivityID" \notin boulder_problems.cols
             THEN KeyError
        ELSE Return(
               (IF HasData(climbing_routes)
                THEN DetailSection(climbing_routes, ids.value,
                                   "Climbing Routes (Last 7 Days)",
                                   "climbingGrade", RouteCompleted)
                ELSE <<>>)
               \o
               (IF HasData(boulder_problems)
                THEN DetailSection(boulder_problems, ids.value,
                                   "Bouldering Problems (Last 7 Days)",
                                   "boulderingGrade", ProblemCompleted)
                ELSE <<>>))

(***************************************************************************)
(* analyze_hrv and gather_recent_metrics                                   *)
(***************************************************************************)
TrailingN == 7

\* the string 'N/A'
NotAvail == 0 - 2

\* Series.tail(n) / DataFrame.tail(n)
Tail_n(s, n) == IF Len(s) <= n THEN s ELSE SubSeq(s, Len(s) - n + 1, Len(s))

\* Series.dropna()
DropNa(s) == SelectSeq(s, LAMBDA v : ~IsNa(v))

\* int(x) of a mean of non-negative numbers
IntOfMean(m) == m.sum \div m.n

\* a faulty variant that leaves the rows in file order
sort_values_unsorted(rows) == rows

\* df.sort_values('time')
sort_values(rows) == SortByTime(rows)

NoHrv == [kind |-> "No HRV data available.", avg |-> NaN, last |-> NaN]

analyze_hrv(d) ==
    LET sleep_data == d["SleepSummary"]
    IN  IF ~HasData(sleep_data) THEN Return(NoHrv)
        ELSE IF "time" \notin sleep_data.cols THEN KeyError
        ELSE IF "avgOvernightHrv" \notin sleep_data.cols THEN KeyError
        ELSE
          LET sorted == sort_values(sleep_data.rows)
              recent_hrv == Tail_n(DropNa(Column(sorted, "avgOvernightHrv")),
                                   TrailingN)
          IN  IF Len(recent_hrv) = 0 THEN Return(NoHrv)
              ELSE Return([kind |-> "HRV Status",
                           avg |-> IntOfMean(Mean(recent_hrv)),
                           last |-> recent_hrv[Len(recent_hrv)]])

\* latest.get(c, 'N/A')
GetOrNotAvail(cols, row, c) == IF c \in cols THEN row[c] ELSE NotAvail

\* recent[c].mean() if c in recent else 'N/A'
MeanOrNotAvail(cols, rows, c) ==
    IF c \in cols THEN [na |-> FALSE, mean |-> Mean(Column(rows, c))]
    ELSE [na |-> TRUE, mean |-> Mean(<<>>)]

Absent == [present |-> FALSE]

\* metrics['training_readiness']
TrainingReadinessMetrics(t) ==
    IF ~HasData(t) THEN Return(Absent)
    ELSE IF "time" \notin t.cols THEN KeyError
    ELSE LET sorted == sort_values(t.rows)
             latest == sorted[Len(sorted)]
         IN  Return([present |-> TRUE,
                     score |-> GetOrNotAvail(t.cols, latest, "score"),
                     level |-> GetOrNotAvail(t.cols, latest, "level"),
                     acute_load |-> GetOrNotAvail(t.cols, latest, "acuteLoad")])

\* metrics['sleep']; avg_duration_hours is the mean of sleepTimeSeconds, to
\* be read in units of 3600
SleepMetrics(t) ==
    IF ~HasData(t) THEN Return(Absent)
    ELSE IF "time" \notin t.cols THEN KeyError
    ELSE IF "sleepTimeSeconds" \notin t.cols THEN KeyError
    ELSE IF "sleepScore" \notin t.cols THEN KeyError
    ELSE LET recent_sleep == Tail_n(sort_values(t.rows), TrailingN)
         IN  Return([present |-> TRUE,
                     avg_duration_hours |-> Mean(Column(recent_sleep, "sleepTimeSeconds")),
                     avg_score |-> Mean(Column(recent_sleep, "sleepScore")),
                     latest_score |-> recent_sleep[Len(recent_sleep)].sleepScore])

\* metrics['daily']; avg_stress is the mean of stressDuration, to be read in
\* units of 60
DailyMetrics(t) ==
    IF ~HasData(t) THEN Return(Absent)
    ELSE IF "time" \notin t.cols THEN KeyError
    ELSE LET recent_daily == Tail_n(sort_values(t.rows), TrailingN)
         IN  Return([present |-> TRUE,
                     avg_steps |-> MeanOrNotAvail(t.cols, recent_daily, "totalSteps"),
                     avg_resting_hr |-> MeanOrNotAvail(t.cols, recent_daily, "restingHeartRate"),
                     avg_stress |-> MeanOrNotAvail(t.cols, recent_daily, "stressDuration")])

\* metrics['vo2_max']: the last 3 values in time order
Vo2Metrics(t) ==
    IF ~HasData(t) THEN Return(Absent)
    ELSE IF "time" \notin t.cols THEN KeyError
    ELSE LET latest_vo2 == Tail_n(sort_values(t.rows), 3)
         IN  Return([present |-> TRUE,
                     recent_values |-> IF "vo2MaxValue" \in t.cols
                                       THEN Column(latest_vo2, "vo2MaxValue")
                                       ELSE <<>>])

gather_recent_metrics(d) ==
    LET tr == TrainingReadinessMetrics(d["TrainingReadiness"])
        sl == SleepMetrics(d["SleepSummary"])
        da == DailyMetrics(d["DailyStats"])
        vo == Vo2Metrics(d["VO2_Max"])
    IN  IF tr.raised \/ sl.raised \/ da.raised \/ vo.raised THEN KeyError
        ELSE Return([training_readiness |-> tr.value, sleep |-> sl.value,
                     daily |-> da.value, vo2_max |-> vo.value])

(***************************************************************************)
(* format_data_for_claude: the result is prompt_parts, the sequence that   *)
(* '\n'.join turns into the prompt. A part is [section, tags, body]: the   *)
(* section it belongs to, the tag of each of its lines, and its values.    *)
(***************************************************************************)
Part(section, tags, body) == [section |-> section, tags |-> tags, body |-> body]

\* the empty string as a part
EmptyPart == Part("", <<>>, <<>>)

WeeklyPart(w) ==
    IF w.lines = <<>> THEN Part("weekly", <<w.kind>>, w)
    ELSE Part("weekly", <<"header">> \o [k \in DOMAIN w.lines |-> "day"], w)

DisciplinePart(c) ==
    IF c = <<>> THEN EmptyPart
    ELSE Part("discipline", [i \in DOMAIN c |-> c[i].line], c)

HrvPart(h) ==
    IF h.avg = NaN THEN Part("hrv", <<h.kind>>, h)
    ELSE Part("hrv", <<"header", "average", "last">>, h)

\* the parts appended for metrics['daily']: the header and the steps line
\* are one string, replaced by '' when steps are 'N/A'; the resting heart
\* rate line is a string of its own
DailyParts(daily) ==
    (IF ~daily.avg_steps.na
     THEN <<Part("daily", <<"header", "steps">>, daily)>>
     ELSE <<EmptyPart>>)
    \o
    (IF ~daily.avg_resting_hr.na
     THEN <<Part("daily", <<"resting_hr">>, daily)>>
     ELSE <<>>)

format_data_for_claude(d, tdy) ==
    LET weekly == analyze_weekly_activities(d, tdy)
        climbing == analyze_climbing_bouldering(d, tdy)
        hrv == analyze_hrv(d)
        metrics == gather_recent_metrics(d)
    IN  IF weekly.raised \/ climbing.raised \/ hrv.raised \/ metrics.raised
        THEN KeyError
        ELSE Return(
               <<Part("date", <<"header">>, DateOf(tdy)),
                 WeeklyPart(weekly.value),
                 DisciplinePart(climbing.value),
                 HrvPart(hrv.value)>>
               \o (IF metrics.value.training_readiness.present
                   THEN <<Part("training_readiness",
                               <<"header", "score", "level", "acute_load">>,
                               metrics.value.training_readiness)>>
                   ELSE <<>>)
               \o (IF metrics.value.sleep.present
                   THEN <<Part("sleep",
                               <<"header", "duration", "average_score", "latest_score">>,
                               metrics.value.sleep)>>
                   ELSE <<>>)
               \o (IF metrics.value.daily.present
                   THEN DailyParts(metrics.value.daily)
                   ELSE <<>>)
               \o <<Part("closing", <<"instructions">>, <<>>)>>)

(***************************************************************************)
(* Specifications of the pure functions: Init draws the inputs, one action *)
(* applies the function.                                                   *)
(***************************************************************************)
MainIdle ==
    /\ env = [api_key |-> TRUE, summary |-> TRUE, skill |-> TRUE,
              skill_readable |-> TRUE, profile |-> "none",
              summary_readable |-> TRUE]
    /\ report_content = NaN
    /\ output_path = NaN
    /\ exit_code = NaN
    /\ files = 0
    /\ console = <<>>
    /\ calls = 0

DetailRecord(id, d, res) ==
    [ActivityID |-> id, Duration |-> d, resultType |-> res,
     climbingGrade |-> "5a", boulderingGrade |-> "V3", attemptCount |-> 1]

DetailRow(id, d) == DetailRecord(id, d, "completed")

RouteCols == {"ActivityID", "Duration", "resultType", "climbingGrade",
              "attemptCount"}

ProblemCols == {"ActivityID", "Duration", "resultType", "boulderingGrade",
                "attemptCount"}

DurationValues == {NaN, 60, 120}

\* a detail record of the model: the table it is in, its ActivityID, its
\* Duration
DetailChoices == {"route", "problem"} \X (1..MaxId) \X DurationValues

\* the table of the records of one kind; without records it is absent
\* (none) or empty
DurationTable(details, kind, cols, none) ==
    LET mine == SelectSeq(details, LAMBDA a : a[1] = kind)
    IN  IF mine = <<>> /\ none THEN NoneTable
        ELSE Table(cols, [i \in DOMAIN mine |-> DetailRow(mine[i][2], mine[i][3])])

InitDuration ==
    /\ MainIdle
    /\ today = 0
    /\ pc = "input"
    /\ result = Return(0)
    /\ arg \in 1..MaxId
    /\ \E details \in SeqUpTo(DetailChoices, MaxDetail), none \in BOOLEAN :
          data = [EmptyStore EXCEPT
                     !["ClimbingRoutes"] =
                         DurationTable(details, "route", RouteCols, none),
                     !["BoulderProblems"] =
                         DurationTable(details, "problem", ProblemCols, none)]

CalculateClimbingDuration ==
    /\ pc = "input"
    /\ result' = calculate_climbing_duration(arg, data["ClimbingRoutes"],
                                             data["BoulderProblems"])
    /\ pc' = "done"
    /\ UNCHANGED <<data, today, arg>>
    /\ UNCHANGED mainVars

SpecDuration == InitDuration /\ [][CalculateClimbingDuration]_vars

InitFormat ==
    /\ MainIdle
    /\ today = 0
    /\ pc = "input"
    /\ result = Return(0)
    /\ arg \in {NaN} \cup (0..MaxSeconds)
    /\ data = EmptyStore

FormatDuration ==
    /\ pc = "input"
    /\ result' = Return(format_duration(arg))
    /\ pc' = "done"
    /\ UNCHANGED <<data, today, arg>>
    /\ UNCHANGED mainVars

SpecFormat == InitFormat /\ [][FormatDuration]_vars

(***************************************************************************)
(* Specification of the weekly narrator: the store holds up to MaxActs     *)
(* activities anywhere from before the window to after the reference date. *)
(***************************************************************************)
ActivityCols == {"ActivityID", "time", "activityType", "movingDuration",
                 "elapsedDuration", "averageHR", "maxHR"}

ActivityRow(i, t, ty, moving, elapsed) ==
    [idx |-> i, ActivityID |-> ((i - 1) % MaxId) + 1, time |-> t,
     activityType |-> ty, movingDuration |-> moving,
     elapsedDuration |-> elapsed, averageHR |-> 140, maxHR |-> 170]

Todays == {Days(RefDay) + k : k \in 0..(TicksPerDay - 1)}

\* the days, relative to the reference date, an activity of the model is
\* dated on: before the window, its first, a middle and its last day, the
\* reference date and the day after
ActivityDayOffsets == {0 - 8, 0 - 7, 0 - 4, 0 - 1, 0, 1}

\* the first and the last tick of each of those days
ActivityTimes(tdy) ==
    {normalize(tdy) + Days(o) + k : o \in ActivityDayOffsets, k \in {0, TicksPerDay - 1}}

WeeklyTypes == {"No Activity", "running", "bouldering"}

WeeklyTables(tdy) ==
    {NoneTable} \cup
    {Table(ActivityCols,
           [i \in DOMAIN rs |-> ActivityRow(i, rs[i][1], rs[i][2], 1800, 2000)]) :
        rs \in SeqUpTo(ActivityTimes(tdy) \X WeeklyTypes, MaxActs)}

InitWeekly ==
    /\ MainIdle
    /\ arg = 0
    /\ pc = "input"
    /\ result = Return(0)
    /\ today \in Todays
    /\ \E a \in WeeklyTables(today) :
          data = [EmptyStore EXCEPT
                     !["ActivitySummary"] = a,
                     !["BoulderProblems"] = Table(ProblemCols, <<DetailRow(1, 120)>>)]

AnalyzeWeeklyActivities ==
    /\ pc = "input"
    /\ result' = analyze_weekly_activities(data, today)
    /\ pc' = "done"
    /\ UNCHANGED <<data, today, arg>>
    /\ UNCHANGED mainVars

SpecWeekly == InitWeekly /\ [][AnalyzeWeeklyActivities]_vars

\* the rows of ActivitySummary, by index label
ActivityRows == data["ActivitySummary"].rows

\* a real activity dated on one of the 7 days before the reference date
InPriorDays(r) ==
    /\ r.activityType # "No Activity"
    /\ DateOf(r.time) \in (DateOf(today) - WindowDays)..(DateOf(today) - 1)

\* the result has one line for each of the 7 days before today, oldest first
SevenDayLines ==
    /\ ~result.raised
    /\ Len(result.value.lines) = WindowDays
    /\ \A k \in 1..WindowDays :
          result.value.lines[k].date = DateOf(today) - WindowDays - 1 + k

AllRest == \A k \in DOMAIN result.value.lines : result.value.lines[k].rest

(***************************************************************************)
(* C1 (as stated): for every store, also one where ActivitySummary is      *)
(* absent or empty, the weekly narrator emits one line for each of the 7   *)
(* days before the reference date, oldest first, and all 7 are rest-day    *)
(* lines when no real activity falls on those days.                        *)
(***************************************************************************)
WeeklySevenLinesAlways ==
    pc = "done" =>
      /\ SevenDayLines
      /\ ((\A i \in DOMAIN ActivityRows : ~InPriorDays(ActivityRows[i])) => AllRest)

(***************************************************************************)
(* C1 (amended): when ActivitySummary is present and non-empty the weekly  *)
(* narrator emits one line for each of the 7 days before the reference     *)
(* date, oldest first, all 7 being rest-day lines when no real activity    *)
(* falls on those days; when ActivitySummary is absent or empty it returns *)
(* "No activity data found." and no day line.                              *)
(***************************************************************************)
WeeklySevenLinesWhenData ==
    pc = "done" =>
      /\ HasData(data["ActivitySummary"]) =>
            /\ SevenDayLines
            /\ ((\A i \in DOMAIN ActivityRows : ~InPriorDays(ActivityRows[i]))
                  => AllRest)
      /\ ~HasData(data["ActivitySummary"]) =>
            /\ ~result.raised
            /\ result.value = NoActivityData

WeeklyAllRestWitness ==
    /\ pc = "done"
    /\ Len(ActivityRows) = 2
    /\ ActivityRows[1].activityType = "No Activity"
    /\ DateOf(ActivityRows[1].time) = DateOf(today) - 4
    /\ ActivityRows[2].activityType = "running"
    /\ DateOf(ActivityRows[2].time) = DateOf(today)
    /\ SevenDayLines
    /\ AllRest

(***************************************************************************)
(* C2: an activity appears on a day line of the weekly narrator only if    *)
(* its timestamp lies in [midnight of (today - 7 days), today), it is not  *)
(* on the reference date's own calendar day, and its type is not           *)
(* "No Activity".                                                          *)
(***************************************************************************)
\* the index labels of the rows that appear on some line
Appearing ==
    {result.value.lines[k].acts[j].idx :
        <<k, j>> \in {<<k, j>> \in (1..WindowDays) \X (1..MaxActs + 1) :
                         /\ k \in DOMAIN result.value.lines
                         /\ j \in DOMAIN result.value.lines[k].acts}}

WeeklyOnlyWindowActivities ==
    (pc = "done" /\ ~result.raised) =>
      \A i \in Appearing :
         /\ ActivityRows[i].time >= normalize(today - Days(WindowDays))
         /\ ActivityRows[i].time < today
         /\ DateOf(ActivityRows[i].time) # DateOf(today)
         /\ ActivityRows[i].activityType # "No Activity"

WeeklyWindowWitness ==
    /\ pc = "done"
    /\ ~result.raised
    /\ Len(ActivityRows) = 2
    /\ ActivityRows[1].activityType = "running"
    /\ ActivityRows[1].time = normalize(today)
    /\ ActivityRows[1].time < today
    /\ ActivityRows[2].activityType = "running"
    /\ ActivityRows[2].time = normalize(today) - 1
    /\ Appearing = {2}

(***************************************************************************)
(* Specification of the discipline analyzer: activity 1 is a bouldering    *)
(* session somewhere around the window, activity 2 a run inside it, and up *)
(* to MaxAttempts detail records are spread over the two detail tables.    *)
(***************************************************************************)
ResultTypes == {"completed", "SENT", "TOPPED", "failed"}

ClimbTimes(tdy) ==
    {normalize(tdy - Days(WindowDays)) - 1, normalize(tdy - Days(WindowDays)),
     tdy - 1, tdy, tdy + 1}

AttemptChoices == {"route", "problem"} \X (1..MaxId) \X ResultTypes

AttemptRows(attempts, kind) ==
    LET mine == SelectSeq(attempts, LAMBDA a : a[1] = kind)
    IN  [i \in DOMAIN mine |-> DetailRecord(mine[i][2], 60, mine[i][3])]

InitClimb ==
    /\ MainIdle
    /\ arg = 0
    /\ pc = "input"
    /\ result = Return(0)
    /\ today = Days(RefDay) + 1
    /\ \E t \in ClimbTimes(today), attempts \in SeqUpTo(AttemptChoices, MaxAttempts) :
          data = [EmptyStore EXCEPT
                     !["ActivitySummary"] =
                         Table(ActivityCols,
                               <<ActivityRow(1, t, "bouldering", 1800, 2000),
                                 ActivityRow(2, today - Days(2), "running", 1800, 2000)>>),
                     !["ClimbingRoutes"] =
                         Table(RouteCols, AttemptRows(attempts, "route")),
                     !["BoulderProblems"] =
                         Table(ProblemCols, AttemptRows(attempts, "problem"))]

AnalyzeClimbingBouldering ==
    /\ pc = "input"
    /\ result' = analyze_climbing_bouldering(data, today)
    /\ pc' = "done"
    /\ UNCHANGED <<data, today, arg>>
    /\ UNCHANGED mainVars

SpecClimb == InitClimb /\ [][AnalyzeClimbingBouldering]_vars

(***************************************************************************)
(* C6: the completion rate counts a detail record as completed exactly     *)
(* when its resultType is, in any letter casing, "completed", "sent" or,   *)
(* for boulder problems only, "topped"; the rate is completed/attempted    *)
(* times 100 rounded to zero decimals, and 0 when nothing was attempted.   *)
(***************************************************************************)
\* str.lower() on the result types of the model
Lower(r) ==
    CASE r = "completed" -> "completed"
      [] r = "SENT" -> "sent"
      [] r = "TOPPED" -> "topped"
      [] r = "failed" -> "failed"

\* the rows of table name that belong to the counted activities
CountedRows(name) ==
    LET ids == recent_climbing_ids(data["ActivitySummary"], today).value
    IN  SelectSeq(data[name].rows, LAMBDA r : r.ActivityID \in ids)

\* the lines of the result's section that starts with the given header
RateLines(header) ==
    {i \in DOMAIN result.value :
        /\ result.value[i].line = "rate"
        /\ \E h \in 1..i :
              /\ result.value[h].line = "header"
              /\ result.value[h].text = header
              /\ \A m \in (h + 1)..i : result.value[m].line # "header"}

RateIs(name, header, vocabulary) ==
    LET rows == CountedRows(name)
        completed == Cardinality({i \in DOMAIN rows :
                                     Lower(rows[i].resultType) \in vocabulary})
    IN  \A i \in RateLines(header) :
           /\ result.value[i].completed = completed
           /\ result.value[i].total = Len(rows)
           /\ result.value[i].pct =
                 IF Len(rows) = 0 THEN 0
                 ELSE RoundHalfEven(completed * 100, Len(rows))

CompletionRateCaseInsensitive ==
    (pc = "done" /\ ~result.raised) =>
      /\ RateIs("ClimbingRoutes", "Climbing Routes (Last 7 Days)",
                {"completed", "sent"})
      /\ RateIs("BoulderProblems", "Bouldering Problems (Last 7 Days)",
                {"completed", "sent", "topped"})

(***************************************************************************)
(* C11: the discipline analyzer counts a route or boulder-problem record   *)
(* only if its ActivityID is that of an indoor_climbing or bouldering      *)
(* activity timestamped in [midnight of (today - 7 days), today); records  *)
(* of activities before the window or at or after today are not counted.   *)
(***************************************************************************)
\* the ids of the climbing activities inside the window
WindowClimbingIds ==
    {ActivityRows[i].ActivityID :
        i \in {j \in DOMAIN ActivityRows :
                 /\ ActivityRows[j].activityType \in ClimbingTypes
                 /\ ActivityRows[j].time >= normalize(today - Days(WindowDays))
                 /\ ActivityRows[j].time < today}}

\* the number of records the section with the header reports, 0 without it
SectionTotal(header) ==
    LET H == {h \in DOMAIN result.value :
                 /\ result.value[h].line = "header"
                 /\ result.value[h].text = header}
    IN  IF H = {} THEN 0
        ELSE result.value[(CHOOSE h \in H : TRUE) + 1].n

WindowRecords(name) ==
    Cardinality({i \in DOMAIN data[name].rows :
                    data[name].rows[i].ActivityID \in WindowClimbingIds})

DisciplineOnlyWindowRecords ==
    (pc = "done" /\ ~result.raised) =>
      /\ SectionTotal("Climbing Routes (Last 7 Days)") = WindowRecords("ClimbingRoutes")
      /\ SectionTotal("Bouldering Problems (Last 7 Days)") = WindowRecords("BoulderProblems")

(***************************************************************************)
(* Specification of the recovery aggregator: the four recovery tables hold *)
(* one record for each of the days 1..n, n <= MaxRows. The file order is   *)
(* any permutation for n <= MaxPermRows, and beyond that the ascending or  *)
(* the descending order with up to MaxSwaps pairs of rows exchanged.       *)
(* With arg = 1 the newest night and night 3 have no HRV and sleep score.  *)
(***************************************************************************)
RECURSIVE Perms(_)
Perms(S) ==
    IF S = {} THEN {<<>>}
    ELSE UNION {{<<x>> \o q : q \in Perms(S \ {x})} : x \in S}

Pairs(n) == {<<i, j>> \in (1..n) \X (1..n) : i < j}

RECURSIVE ApplySwaps(_, _)
ApplySwaps(p, sw) ==
    IF sw = <<>> THEN p
    ELSE LET i == Head(sw)[1]
             j == Head(sw)[2]
         IN  ApplySwaps([p EXCEPT ![i] = p[j], ![j] = p[i]], Tail(sw))

FileOrders(n) ==
    {ApplySwaps(base, sw) :
        base \in {[i \in 1..n |-> i], [i \in 1..n |-> n + 1 - i]},
        sw \in SeqUpTo(Pairs(n), MaxSwaps)}
    \cup (IF n <= MaxPermRows THEN Perms(1..n) ELSE {})

Missing(t, n, holes) == holes = 1 /\ t \in {3, n}

SleepRow(t, n, holes) ==
    [time |-> Days(t),
     avgOvernightHrv |-> IF Missing(t, n, holes) THEN NaN ELSE 40 + 3 * t,
     sleepTimeSeconds |-> 3600 * t,
     sleepScore |-> IF Missing(t, n, holes) THEN NaN ELSE 60 + t]

DailyRow(t) ==
    [time |-> Days(t), totalSteps |-> 1000 * t, restingHeartRate |-> 50 + t,
     stressDuration |-> 60 * t]

ReadinessRow(t) ==
    [time |-> Days(t), score |-> 10 * t, level |-> t % 3, acuteLoad |-> 100 + t]

Vo2Row(t) == [time |-> Days(t), vo2MaxValue |-> 40 + t]

SleepCols == {"time", "avgOvernightHrv", "sleepTimeSeconds", "sleepScore"}

DailyCols == {"time", "totalSteps", "restingHeartRate", "stressDuration"}

ReadinessCols == {"time", "score", "level", "acuteLoad"}

Vo2Cols == {"time", "vo2MaxValue"}

RecoveryStore(p, holes) ==
    [EmptyStore EXCEPT
        !["SleepSummary"] = Table(SleepCols, [i \in DOMAIN p |-> SleepRow(p[i], Len(p), holes)]),
        !["DailyStats"] = Table(DailyCols, [i \in DOMAIN p |-> DailyRow(p[i])]),
        !["TrainingReadiness"] = Table(ReadinessCols, [i \in DOMAIN p |-> ReadinessRow(p[i])]),
        !["VO2_Max"] = Table(Vo2Cols, [i \in DOMAIN p |-> Vo2Row(p[i])])]

InitRecovery ==
    /\ MainIdle
    /\ today = 0
    /\ pc = "input"
    /\ result = Return(0)
    /\ arg \in 0..1
    /\ \E n \in 0..MaxRows : \E p \in FileOrders(n) : data = RecoveryStore(p, arg)

AnalyzeHrv ==
    /\ pc = "input"
    /\ result' = analyze_hrv(data)
    /\ pc' = "hrv"
    /\ UNCHANGED <<data, today, arg>>
    /\ UNCHANGED mainVars

GatherRecentMetrics ==
    /\ pc = "input"
    /\ result' = gather_recent_metrics(data)
    /\ pc' = "metrics"
    /\ UNCHANGED <<data, today, arg>>
    /\ UNCHANGED mainVars

NextRecovery == AnalyzeHrv \/ GatherRecentMetrics

SpecRecovery == InitRecovery /\ [][NextRecovery]_vars

(***************************************************************************)
(* C8: for tables with pairwise distinct timestamps, in any row order, the *)
(* HRV mean and latest value, the latest training-readiness record, the    *)
(* sleep trailing-7 averages and latest score and the daily trailing-7     *)
(* averages equal those computed from the rows in ascending time order,    *)
(* and are taken from the 7 most recent records.                           *)
(***************************************************************************)
RowSet(name) == {data[name].rows[i] : i \in DOMAIN data[name].rows}

\* the rows of S in ascending time order
Ascending(S) ==
    [i \in 1..Cardinality(S) |->
        CHOOSE r \in S : Cardinality({q \in S : q.time < r.time}) = i - 1]

AscendingStore ==
    [n \in DatasetNames |->
        [data[n] EXCEPT !.rows = Ascending(RowSet(n))]]

\* the n rows of S with the latest times
MostRecent(S, n) == {r \in S : Cardinality({q \in S : q.time > r.time}) < n}

Newest(S) == CHOOSE r \in S : \A q \in S : q.time <= r.time

\* sum and count of column c over the rows of S where it is present
SetMean(S, c) ==
    LET P == {r \in S : ~IsNa(r[c])}
    IN  [sum |-> SumOver(P, [r \in P |-> r[c]]), n |-> Cardinality(P)]

HrvFromMostRecent ==
    LET P == {r \in RowSet("SleepSummary") : ~IsNa(r.avgOvernightHrv)}
        R == MostRecent(P, 7)
    IN  IF P = {} THEN result.value = NoHrv
        ELSE /\ result.value.avg = SetMean(R, "avgOvernightHrv").sum \div Cardinality(R)
             /\ result.value.last = Newest(P).avgOvernightHrv

MetricsFromMostRecent ==
    LET S == RowSet("SleepSummary")
        D == RowSet("DailyStats")
        T == RowSet("TrainingReadiness")
        m == result.value
    IN  S # {} =>
          /\ m.training_readiness.score = Newest(T).score
          /\ m.training_readiness.level = Newest(T).level
          /\ m.training_readiness.acute_load = Newest(T).acuteLoad
          /\ m.sleep.avg_duration_hours = SetMean(MostRecent(S, 7), "sleepTimeSeconds")
          /\ m.sleep.avg_score = SetMean(MostRecent(S, 7), "sleepScore")
          /\ m.sleep.latest_score = Newest(S).sleepScore
          /\ m.daily.avg_steps.mean = SetMean(MostRecent(D, 7), "totalSteps")
          /\ m.daily.avg_resting_hr.mean = SetMean(MostRecent(D, 7), "restingHeartRate")
          /\ m.daily.avg_stress.mean = SetMean(MostRecent(D, 7), "stressDuration")

TrailingIndependentOfRowOrder ==
    /\ pc = "hrv" =>
          /\ ~result.raised
          /\ result = analyze_hrv(AscendingStore)
          /\ HrvFromMostRecent
    /\ pc = "metrics" =>
          /\ ~result.raised
          /\ result = gather_recent_metrics(AscendingStore)
          /\ MetricsFromMostRecent

\* 9 nights, the newest first in the file, all with HRV: the 7 most recent
\* are nights 3..9
TrailingWitness ==
    /\ pc = "hrv"
    /\ arg = 0
    /\ Len(data["SleepSummary"].rows) = 9
    /\ data["SleepSummary"].rows[1].time = Days(9)
    /\ data["SleepSummary"].rows[9].time = Days(1)
    /\ result.value.last = 67
    /\ result.value.avg = 58

(***************************************************************************)
(* Specification of the prompt assembler: every table of the store is      *)
(* absent, empty, complete, or lacks some of its metric columns.           *)
(***************************************************************************)
ColumnChoices(key, optional) == {{key} \cup c : c \in SUBSET optional}

PromptActivityTables(tdy) ==
    {NoneTable,
     Table(ActivityCols, <<ActivityRow(1, tdy - Days(3), "running", 1800, 2000)>>),
     Table(ActivityCols, <<ActivityRow(1, tdy - Days(3), "indoor_climbing", 1800, 2000)>>)}

PromptSleepTables ==
    {NoneTable, Table(SleepCols, <<>>)} \cup
    {Table(c, <<SleepRow(1, 2, 0), SleepRow(2, 2, 0)>>) :
        c \in ColumnChoices("time", SleepCols \ {"time"})}

PromptDailyTables ==
    {NoneTable, Table(DailyCols, <<>>)} \cup
    {Table(c, <<DailyRow(1), DailyRow(2)>>) :
        c \in ColumnChoices("time", DailyCols \ {"time"})}

PromptReadinessTables ==
    {NoneTable, Table(ReadinessCols, <<ReadinessRow(1)>>),
     Table({"time", "score"}, <<ReadinessRow(1)>>)}

PromptRouteTables ==
    {NoneTable, Table(RouteCols, <<>>),
     Table(RouteCols, <<DetailRow(1, 60)>>),
     Table(RouteCols \ {"Duration"}, <<DetailRow(1, 60)>>),
     Table(RouteCols \ {"ActivityID"}, <<DetailRow(1, 60)>>)}

InitPrompt ==
    /\ MainIdle
    /\ arg = 0
    /\ pc = "input"
    /\ result = Return(0)
    /\ today \in Todays
    /\ \E a \in PromptActivityTables(today), s \in PromptSleepTables,
          dl \in PromptDailyTables, t \in PromptReadinessTables,
          r \in PromptRouteTables :
          data = [EmptyStore EXCEPT
                     !["ActivitySummary"] = a, !["SleepSummary"] = s,
                     !["DailyStats"] = dl, !["TrainingReadiness"] = t,
                     !["ClimbingRoutes"] = r]

FormatDataForClaude ==
    /\ pc = "input"
    /\ result' = format_data_for_claude(data, today)
    /\ pc' = "done"
    /\ UNCHANGED <<data, today, arg>>
    /\ UNCHANGED mainVars

SpecPrompt == InitPrompt /\ [][FormatDataForClaude]_vars

\* the prompt has a part of the section
HasSection(section) ==
    \E i \in DOMAIN result.value : result.value[i].section = section

(***************************************************************************)
(* C5: for every store in which a present table is empty or lacks an       *)
(* optional metric column, format_data_for_claude completes without        *)
(* raising, and the sections of the other tables are rendered.             *)
(***************************************************************************)
PromptAssemblyNeverRaises ==
    pc = "done" =>
      /\ ~result.raised
      /\ HasSection("date") /\ HasSection("weekly") /\ HasSection("hrv")
      /\ HasSection("closing")
      /\ (HasData(data["TrainingReadiness"]) => HasSection("training_readiness"))

(***************************************************************************)
(* C7: the prompt holds its sections in the order date header, weekly      *)
(* narrative, discipline analysis, HRV status, training readiness, sleep,  *)
(* daily metrics, closing instructions; no line of an optional section     *)
(* appears without that section's header; an empty discipline analysis     *)
(* adds no line.                                                           *)
(***************************************************************************)
SectionRank(section) ==
    CASE section = "date" -> 1
      [] section = "weekly" -> 2
      [] section = "discipline" -> 3
      [] section = "hrv" -> 4
      [] section = "training_readiness" -> 5
      [] section = "sleep" -> 6
      [] section = "daily" -> 7
      [] section = "closing" -> 8
      [] section = "" -> 0

OptionalSections == {"discipline", "training_readiness", "sleep", "daily"}

HasTag(part, tag) == \E k \in DOMAIN part.tags : part.tags[k] = tag

PromptSectionsWhole ==
    (pc = "done" /\ ~result.raised) =>
      LET parts == result.value
      IN  /\ \A i, j \in DOMAIN parts :
                (i < j /\ parts[i].section # "" /\ parts[j].section # "")
                   => SectionRank(parts[i].section) <= SectionRank(parts[j].section)
          /\ \A i \in DOMAIN parts :
                parts[i].section \in OptionalSections =>
                   \E h \in 1..i : /\ parts[h].section = parts[i].section
                                   /\ HasTag(parts[h], "header")
          /\ \A i \in DOMAIN parts :
                parts[i].section = "discipline" => parts[i].tags # <<>>

(***************************************************************************)
(* main: one run of the program. data is what the summary file holds,      *)
(* today the clock, env the configuration and the state of the files:      *)
(* api_key set, summary and skill files exist, are readable, and the user  *)
(* profile SKILL.md points to ("none", "ok", "unreadable").                *)
(* report_content and output_path are NaN for None; report_content is 0    *)
(* for an empty completion and 1 for a text; exit_code is NaN while the    *)
(* process runs; files counts the report files written, calls the calls of *)
(* save_report, console the messages printed.                              *)
(***************************************************************************)
Say(msg) == console' = Append(console, msg)

Said(msg) == \E i \in DOMAIN console : console[i] = msg

\* sys.exit(1), or an exception that reaches the top level
Exit(code) == exit_code' = code /\ pc' = "exited"

MainStores(tdy) ==
    {EmptyStore,
     [EmptyStore EXCEPT
         !["ActivitySummary"] =
             Table(ActivityCols, <<ActivityRow(1, tdy - Days(3), "running", 1800, 2000)>>)],
     [EmptyStore EXCEPT
         !["SleepSummary"] = Table(SleepCols, <<SleepRow(1, 2, 0), SleepRow(2, 2, 0)>>),
         !["DailyStats"] = Table(DailyCols, <<DailyRow(1), DailyRow(2)>>)],
     [EmptyStore EXCEPT
         !["SleepSummary"] = Table({"time", "sleepScore"}, <<SleepRow(1, 2, 0)>>)]}

InitMain ==
    /\ arg = 0
    /\ pc = "validate"
    /\ result = Return(0)
    /\ today \in Todays
    /\ data \in MainStores(today)
    /\ env \in [api_key : BOOLEAN, summary : BOOLEAN, skill : BOOLEAN,
                skill_readable : BOOLEAN, profile : {"none", "ok", "unreadable"},
                summary_readable : BOOLEAN]
    /\ report_content = NaN
    /\ output_path = NaN
    /\ exit_code = NaN
    /\ files = 0
    /\ console = <<>>
    /\ calls = 0

\* the three configuration checks
ValidateConfig ==
    /\ pc = "validate"
    /\ IF ~env.api_key
       THEN Say("Error: ANTHROPIC_API_KEY not set in environment") /\ Exit(1)
       ELSE IF ~env.summary
       THEN Say("Error: Summary file not found") /\ Exit(1)
       ELSE IF ~env.skill
       THEN Say("Error: Personal trainer skill file not found") /\ Exit(1)
       ELSE UNCHANGED <<console, exit_code>> /\ pc' = "load_skill"
    /\ UNCHANGED <<data, today, arg, result, env, report_content, output_path,
                   files, calls>>

\* load_skill_file
LoadSkillFile ==
    /\ pc = "load_skill"
    /\ IF ~env.skill_readable
       THEN Say("Error loading personal trainer skill") /\ Exit(1)
       ELSE UNCHANGED <<console, exit_code>> /\ pc' = "load_profile"
    /\ UNCHANGED <<data, today, arg, result, env, report_content, output_path,
                   files, calls>>

\* load_user_profile, when SKILL.md names a profile that exists
LoadUserProfile ==
    /\ pc = "load_profile"
    /\ IF env.profile = "unreadable"
       THEN Say("Error loading user profile") /\ Exit(1)
       ELSE IF env.profile = "none"
       THEN Say("Warning: No user profile path found") /\ pc' = "parse"
                /\ UNCHANGED exit_code
       ELSE UNCHANGED <<console, exit_code>> /\ pc' = "parse"
    /\ UNCHANGED <<data, today, arg, result, env, report_content, output_path,
                   files, calls>>

\* parse_markdown_tables and parse_timestamps: a file that cannot be read
\* gives the empty mapping
ParseMarkdownTables ==
    /\ pc = "parse"
    /\ IF ~env.summary_readable
       THEN Say("Error reading markdown file") /\ data' = EmptyStore
       ELSE UNCHANGED <<console, data>>
    /\ pc' = "format"
    /\ UNCHANGED <<today, arg, result, env, report_content, output_path,
                   exit_code, files, calls>>

\* training_data = format_data_for_claude(data); an exception is not caught
FormatTrainingData ==
    /\ pc = "format"
    /\ result' = format_data_for_claude(data, today)
    /\ IF result'.raised
       THEN Say("Traceback") /\ Exit(1)
       ELSE UNCHANGED <<console, exit_code>> /\ pc' = "call_api"
    /\ UNCHANGED <<data, today, arg, env, report_content, output_path,
                   files, calls>>

\* call_claude_api: the text of the completion, or None after any exception
call_claude_api(outcome) ==
    IF outcome = "error"
    THEN /\ Say("Error calling Claude API")
         /\ report_content' = NaN
         /\ pc' = "branch"
         /\ UNCHANGED exit_code
    ELSE /\ report_content' = (IF outcome = "text" THEN 1 ELSE 0)
         /\ pc' = "branch"
         /\ UNCHANGED <<console, exit_code>>

CallClaudeApi ==
    /\ pc = "call_api"
    /\ \E outcome \in {"text", "empty", "error"} : call_claude_api(outcome)
    /\ UNCHANGED <<data, today, arg, result, env, output_path, files, calls>>

\* a faulty variant that goes on to save_report whatever was returned
MainBranch_save_anyway ==
    /\ pc = "branch"
    /\ pc' = "save"
    /\ UNCHANGED <<console, exit_code>>
    /\ UNCHANGED <<data, today, arg, result, env, report_content, output_path,
                   files, calls>>

\* "if report_content:" ... "else: sys.exit(1)"
MainBranch ==
    /\ pc = "branch"
    /\ IF report_content = 1
       THEN pc' = "save" /\ UNCHANGED <<console, exit_code>>
       ELSE Say("Failed to generate report") /\ Exit(1)
    /\ UNCHANGED <<data, today, arg, result, env, report_content, output_path,
                   files, calls>>

\* save_report: the path of the file written, or None after any exception
SaveReport ==
    /\ pc = "save"
    /\ calls' = calls + 1
    /\ \E written \in BOOLEAN :
          IF written
          THEN /\ files' = files + 1
               /\ Say("Report saved")
               /\ output_path' = 1
          ELSE /\ Say("Error saving report")
               /\ output_path' = NaN
               /\ UNCHANGED files
    /\ pc' = "saved"
    /\ UNCHANGED <<data, today, arg, result, env, report_content, exit_code>>

\* "if output_path:" and the end of main
MainReturn ==
    /\ pc = "saved"
    /\ IF output_path = 1
       THEN Say("REPORT GENERATED SUCCESSFULLY")
       ELSE UNCHANGED console
    /\ Exit(0)
    /\ UNCHANGED <<data, today, arg, result, env, report_content, output_path,
                   files, calls>>

NextMain ==
    \/ ValidateConfig
    \/ LoadSkillFile
    \/ LoadUserProfile
    \/ ParseMarkdownTables
    \/ FormatTrainingData
    \/ CallClaudeApi
    \/ MainBranch
    \/ SaveReport
    \/ MainReturn

SpecMain == InitMain /\ [][NextMain]_vars

(***************************************************************************)
(* C3: when the text-generation call fails, call_claude_api returns None   *)
(* without letting the error out, the run reports the failure and exits    *)
(* with a non-zero status, and save_report is never called, so no file is  *)
(* written.                                                                *)
(***************************************************************************)
ApiFailureExitsWithoutSaving ==
    /\ (pc = "branch" /\ report_content = NaN) => Said("Error calling Claude API")
    /\ Said("Traceback") => result.raised
    /\ Said("Error calling Claude API") =>
          /\ report_content = NaN
          /\ ~Said("Traceback")
          /\ calls = 0
          /\ files = 0
          /\ pc \in {"branch", "exited"}
          /\ pc = "exited" => (exit_code = 1 /\ Said("Failed to generate report"))

ApiFailureWitness ==
    /\ pc = "exited"
    /\ Said("Error calling Claude API")
    /\ exit_code = 1
    /\ calls = 0

(***************************************************************************)
(* C4: when the text-generation call succeeds but save_report fails, the   *)
(* failure is reported and the run ends with a non-zero exit code.         *)
(***************************************************************************)
SaveFailureExitsNonZero ==
    (pc = "exited" /\ report_content = 1 /\ calls = 1 /\ output_path = NaN) =>
       /\ Said("Error saving report")
       /\ exit_code # 0

(***************************************************************************)
(* C9: calculate_climbing_duration returns the sum of the Duration of      *)
(* exactly the ClimbingRoutes and BoulderProblems records whose ActivityID *)
(* is the given id; other records contribute nothing; the result is 0 when *)
(* both tables are absent or empty or no record matches.                   *)
(***************************************************************************)
\* the Duration total of the rows of t that reference id, row by row
MatchingTotal(id, t) ==
    LET M == {i \in DOMAIN t.rows : t.rows[i].ActivityID = id}
    IN  SumOver(M, [i \in M |-> IF IsNa(t.rows[i].Duration) THEN 0
                                ELSE t.rows[i].Duration])

NoMatch(id, t) == \A i \in DOMAIN t.rows : t.rows[i].ActivityID # id

ReconcilerSumsMatching ==
    pc = "done" =>
      /\ ~result.raised
      /\ result.value = MatchingTotal(arg, data["ClimbingRoutes"])
                        + MatchingTotal(arg, data["BoulderProblems"])
      /\ (NoMatch(arg, data["ClimbingRoutes"]) /\ NoMatch(arg, data["BoulderProblems"])
            => result.value = 0)

ReconcilerWitness ==
    /\ pc = "done"
    /\ ~result.raised
    /\ result.value = 180
    /\ ~NoMatch(arg, data["ClimbingRoutes"])
    /\ ~NoMatch(arg, data["BoulderProblems"])
    /\ \E i \in DOMAIN data["BoulderProblems"].rows :
          data["BoulderProblems"].rows[i].ActivityID # arg

(***************************************************************************)
(* C10: format_duration gives "0 min" for 0 or a missing value, the        *)
(* truncated minute count and " min" below 5400 seconds, and from 5400     *)
(* seconds on the hour count to one decimal and " hours".                  *)
(***************************************************************************)
\* tenths is a nearest tenth of an hour to seconds
NearestTenth(tenths, seconds) ==
    /\ 360 * tenths - seconds <= 180
    /\ seconds - 360 * tenths <= 180

FormatDurationRule ==
    pc = "done" =>
      /\ (IsNa(arg) \/ arg = 0) => result.value = MinStr(0)
      /\ (arg > 0 /\ arg < 5400) =>
            /\ result.value.unit = "min"
            /\ 60 * result.value.n <= arg
            /\ arg < 60 * (result.value.n + 1)
      /\ arg >= 5400 =>
            /\ result.value.unit = "hours"
            /\ NearestTenth(result.value.n, arg)
      /\ arg = 89 * 60 => result.value = MinStr(89)
      /\ arg = 90 * 60 => result.value = HoursStr(15)

FormatDurationWitness ==
    /\ pc = "done"
    /\ arg = 5400
    /\ result.value = HoursStr(15)

(***************************************************************************)
(* Specification of the weekly narrator's durations: one activity inside   *)
(* the window, of a climbing or another type, in a table with or without   *)
(* the movingDuration and elapsedDuration columns, each cell a number of   *)
(* seconds or NaN; its routes and problems add up to 180 seconds.          *)
(***************************************************************************)
MovingValues == {NaN, 0, 600, 7200}

ElapsedValues == {NaN, 1800}

DurationTypes == {"running", "strength_training", "bouldering"}

InitWeeklyDuration ==
    /\ MainIdle
    /\ arg = 0
    /\ pc = "input"
    /\ result = Return(0)
    /\ today \in Todays
    /\ \E t \in {today - Days(1), today - Days(4)}, ty \in DurationTypes,
          moving \in MovingValues, elapsed \in ElapsedValues,
          dropped \in SUBSET {"movingDuration", "elapsedDuration"} :
          data = [EmptyStore EXCEPT
                     !["ActivitySummary"] =
                         Table(ActivityCols \ dropped,
                               <<ActivityRow(1, t, ty, moving, elapsed)>>),
                     !["ClimbingRoutes"] =
                         Table(RouteCols, <<DetailRow(1, 60), DetailRow(2, 60)>>),
                     !["BoulderProblems"] =
                         Table(ProblemCols, <<DetailRow(1, 120)>>)]

SpecWeeklyDuration == InitWeeklyDuration /\ [][AnalyzeWeeklyActivities]_vars

(***************************************************************************)
(* C12: for an in-window activity that is neither indoor_climbing nor      *)
(* bouldering the weekly narrator formats movingDuration when that value   *)
(* is present, otherwise elapsedDuration when that value is present,       *)
(* otherwise 0 (a missing movingDuration with elapsedDuration = 1800 gives *)
(* "30 min"); for a climbing activity it formats the reconciler's sum.     *)
(***************************************************************************)
\* the value of column c of the row is there: the column exists and the cell
\* is not NaN
Present(row, c) == c \in data["ActivitySummary"].cols /\ ~IsNa(row[c])

FallbackDuration(row) ==
    IF Present(row, "movingDuration") THEN row.movingDuration
    ELSE IF Present(row, "elapsedDuration") THEN row.elapsedDuration
    ELSE 0

\* the activity texts of the lines, whatever the line
ShownActivities ==
    {result.value.lines[k].acts[j] :
        <<k, j>> \in {<<k, j>> \in (1..WindowDays) \X (1..MaxActs + 1) :
                         /\ k \in DOMAIN result.value.lines
                         /\ j \in DOMAIN result.value.lines[k].acts}}

WeeklyDurationFallback ==
    (pc = "done" /\ ~result.raised) =>
      \A a \in ShownActivities :
         LET row == ActivityRows[a.idx]
         IN  /\ row.activityType \notin ClimbingTypes =>
                  a.duration = format_duration(FallbackDuration(row))
             /\ (/\ row.activityType \notin ClimbingTypes
                 /\ ~Present(row, "movingDuration")
                 /\ Present(row, "elapsedDuration")
                 /\ row.elapsedDuration = 1800) => a.duration = MinStr(30)
             /\ row.activityType \in ClimbingTypes =>
                  a.duration = format_duration(
                      MatchingTotal(row.ActivityID, data["ClimbingRoutes"])
                      + MatchingTotal(row.ActivityID, data["BoulderProblems"]))

====
